---- MODULE Spec2Model ----
(***************************************************************************)
(* Presence-and-broadcast relay (stormozov/websocket-back).                *)
(*                                                                         *)
(* Two variants of the server are modelled by one state machine:           *)
(*   "part_000"  src/unnamed/part_000  (10 s grace, message history,       *)
(*               roster broadcast after registration and after eviction)   *)
(*   "server"    src/server.js         (30 s grace, no history, no roster  *)
(*               broadcast after registration or eviction)                 *)
(* The variable `variant` is fixed by the initial state.                   *)
(*                                                                         *)
(* Node runs every handler to completion on one thread, so each handler    *)
(* (connection, message, close, timer callback, POST /new-user) is one     *)
(* atomic action.  Time is abstracted: an armed timer may fire at any      *)
(* moment until it is cleared.                                             *)
(*                                                                         *)
(* No handler catches what it throws and the program installs no           *)
(* uncaughtException handler: an exception thrown in a WebSocket handler   *)
(* or in a timer callback ends the process (running = FALSE).  The         *)
(* exception of the async POST handler rejects its promise; nothing        *)
(* handles the rejection, which ends the process as well (the default of   *)
(* the runtime for unhandled rejections).                                  *)
(***************************************************************************)
EXTENDS Integers, Sequences, FiniteSets, TLC

\* ---------------------------------------------------------------- bounds
MaxConns == 2
MaxUsers == 2
MaxMessages == 2
MaxTimers == 3

\* ------------------------------------------------------------- constants
NoId == 0
NoTimer == 0
NoConn == 0

Conns == 1..MaxConns
Ids == 1..MaxUsers
Handles == 1..MaxTimers

Undefined == "undefined"
Names == {"a", "b"}

\* request.body of POST /new-user: {} or {name: n}
Bodies ==
  {[empty |-> TRUE, name |-> Undefined]}
    \cup {[empty |-> FALSE, name |-> n] : n \in Names}

NoUser == [present |-> FALSE, id |-> NoId]

\* receivedMSG.user: absent, present without a usable id, present with an id
UserOf(i) == [present |-> TRUE, id |-> i]

\* The identities connection c announces in "join" frames: the first
\* connection announces identity 1, every other connection any identity.
JoinIds(c) == IF c = 1 THEN {1} ELSE Ids

\* The well-formed inbound frames of connection c (receivedMSG after
\* JSON.parse) of a type: "join" frames with every shape of user; "exit",
\* "send" and unrecognized ("other") frames without a user or announcing
\* identity 1.
FrameUsers(c, type) ==
  IF type = "join"
    THEN {NoUser, UserOf(NoId)} \cup {UserOf(i) : i \in JoinIds(c)}
    ELSE {NoUser, UserOf(1)}

Frames(c, type) == [type : {type}, user : FrameUsers(c, type)]

VARIABLES
  variant,        \* which source file is running
  userState,      \* the roster: sequence of [id, name]
  nextId,         \* the next value randomUUID() yields
  messages,       \* the history buffer (part_000 only)
  deletionTimers, \* Map userId -> timer handle (NoTimer: no entry)
  timers,         \* the runtime's armed timers: set of [handle, userId]
  readyState,     \* per connection: "NONE" (not yet connected), "OPEN", "CLOSED"
  currentUserId,  \* per connection: the closure variable currentUserId
  exited,         \* open connections that have processed an "exit" event
  running,        \* FALSE once an uncaught exception has ended the process
  sent,           \* per connection: payloads delivered to it by the last step
  last            \* what the last step was

vars ==
  <<variant, userState, nextId, messages, deletionTimers, timers,
    readyState, currentUserId, exited, running, sent, last>>

\* -------------------------------------------------------------- helpers
Nothing ==
  [op |-> "init", conn |-> NoConn, id |-> NoId, user |-> NoUser,
   name |-> "", saved |-> FALSE, removed |-> FALSE, cleared |-> FALSE,
   failed |-> NoConn, raised |-> FALSE, status |-> 0]

NoneSent == [c \in Conns |-> <<>>]

\* [...wsServer.clients].filter(o => o.readyState === WebSocket.OPEN)
OpenClients(rs) == {c \in Conns : rs[c] = "OPEN"}

\* JSON.stringify(userState)
Snapshot(us) == [kind |-> "users", body |-> us]

\* the raw frame, re-broadcast verbatim
Raw(m) == [kind |-> "raw", body |-> <<m>>]

\* (mutant) the replay leaves out the oldest message
HistoryEnvelope_DropsOldest(ms) ==
  [kind |-> "messages", body |-> IF ms = <<>> THEN ms ELSE Tail(ms)]

\* JSON.stringify({type: 'messages', messages})
HistoryEnvelope(ms) == [kind |-> "messages", body |-> ms]

\* .forEach(o => o.send(payload)) over the open clients, in the insertion
\* order of wsServer.clients.  f is the connection whose send throws
\* (NoConn: no send throws): the targets before f are served, the throw
\* leaves forEach, the targets after f are not served.
\* (mutant) the fan-out skips the client that is served first
BroadcastTargets_SkipsFirst(rs, f) ==
  {c \in OpenClients(rs) : \E d \in OpenClients(rs) : d < c}

BroadcastTargets(rs, f) ==
  IF f \in OpenClients(rs)
    THEN {c \in OpenClients(rs) : c < f}
    ELSE OpenClients(rs)

Broadcast(rs, payload, f) ==
  [c \in Conns |-> IF c \in BroadcastTargets(rs, f) THEN <<payload>> ELSE <<>>]

BroadcastThrows(rs, f) == f \in OpenClients(rs)

\* userState.findIndex(user => user.id === userId)   (0: not found)
FindIndex(us, id) ==
  IF \E i \in 1..Len(us) : us[i].id = id
    THEN CHOOSE i \in 1..Len(us) :
           us[i].id = id /\ \A j \in 1..(i - 1) : us[j].id # id
    ELSE 0

\* (mutant) the last identity is removed, whatever the index
Splice_RemovesLast(us, idx) == SubSeq(us, 1, Len(us) - 1)

\* userState.splice(idx, 1)
Splice(us, idx) ==
  [i \in 1..(Len(us) - 1) |-> IF i < idx THEN us[i] ELSE us[i + 1]]

\* (mutant) the search skips the first identity of the roster
IsExist_SkipsFirst(us, name) == \E i \in 2..Len(us) : us[i].name = name

\* userState.find(user => user.name === name)
IsExist(us, name) == \E i \in 1..Len(us) : us[i].name = name

\* ------------------------------------------------- the eviction scheduler
\* The scheduler's state is threaded through a handler as a record
\* [map, pending, cleared] standing for deletionTimers, the runtime's armed
\* timers, and whether the handler has cleared a timer that was armed.
TimerState == [map |-> deletionTimers, pending |-> timers, cleared |-> FALSE]

\* The handles in use when a timer is armed for id: those of armed timers and
\* those deletionTimers holds for other identities (the entry of id is
\* overwritten by the statement that arms the timer).
InUse(T, id) ==
  {t.handle : t \in T.pending} \cup {T.map[i] : i \in Ids \ {id}}

\* setTimeout() yields a new Timeout object.  Handles are numbers here, and a
\* number is used again only once no armed timer and no entry of
\* deletionTimers refers to it: a timer armed under a number used before is a
\* new timer.
CanArm(T, id) == \E h \in Handles : h \notin InUse(T, id)

NewHandle(T, id) ==
  CHOOSE h \in Handles :
    h \notin InUse(T, id) /\ \A g \in Handles : g < h => g \in InUse(T, id)

\* clearTimeout(handle)
ClearTimeout(T, h) ==
  [T EXCEPT !.pending = {t \in @ : t.handle # h},
            !.cleared = @ \/ \E t \in T.pending : t.handle = h]

\* deletionTimers.has(userId)
Has(T, id) == id \in Ids /\ T.map[id] # NoTimer

\* (mutant) the timer is armed for the first identity, whatever the id
ScheduleDeletion_ArmsFirst(T, id) ==
  LET T1 == IF Has(T, 1) THEN ClearTimeout(T, T.map[1]) ELSE T
      h  == NewHandle(T1, 1)
  IN  [T1 EXCEPT !.pending = @ \cup {[handle |-> h, userId |-> 1]},
                 !.map[1] = h]

\* (mutant) the timer armed before is not cleared
ScheduleDeletion_NoClear(T, id) ==
  LET h == NewHandle(T, id)
  IN  [T EXCEPT !.pending = @ \cup {[handle |-> h, userId |-> id]},
                !.map[id] = h]

ScheduleDeletion(T, id) ==
  LET T1 == IF Has(T, id) THEN ClearTimeout(T, T.map[id]) ELSE T
      h  == NewHandle(T1, id)
  IN  [T1 EXCEPT !.pending = @ \cup {[handle |-> h, userId |-> id]},
                 !.map[id] = h]

\* (mutant) the entry is deleted, the timer is not cleared
CancelDeletion_NoClear(T, id) ==
  IF Has(T, id) THEN [T EXCEPT !.map[id] = NoTimer] ELSE T

CancelDeletion(T, id) ==
  IF Has(T, id)
    THEN [ClearTimeout(T, T.map[id]) EXCEPT !.map[id] = NoTimer]
    ELSE T

\* the connection whose send threw in a fan-out over the open clients of rs
Failed(rs, f) == IF BroadcastThrows(rs, f) THEN f ELSE NoConn

\* ------------------------------------------------------------------ Init
InitCommon ==
  /\ userState = <<>>
  /\ nextId = 1
  /\ messages = <<>>
  /\ deletionTimers = [i \in Ids |-> NoTimer]
  /\ timers = {}
  /\ readyState = [c \in Conns |-> "NONE"]
  /\ currentUserId = [c \in Conns |-> NoId]
  /\ exited = {}
  /\ running = TRUE
  /\ sent = NoneSent
  /\ last = Nothing

Init == InitCommon /\ variant = "part_000"

InitServer == InitCommon /\ variant = "server"

\* ---------------------------------------------------------------- actions
\* Every action takes f, the connection whose send throws during the step
\* (NoConn: every send succeeds).

\* wsServer.on("connection"): currentUserId = null, then the roster is sent to
\* every open client (the new one included).
Connection(f) ==
  \E c \in Conns :
    /\ running
    /\ readyState[c] = "NONE"
    /\ \A d \in Conns : d < c => readyState[d] # "NONE"
    /\ LET rs == [readyState EXCEPT ![c] = "OPEN"]
       IN  /\ readyState' = rs
           /\ currentUserId' = [currentUserId EXCEPT ![c] = NoId]
           /\ sent' = Broadcast(rs, Snapshot(userState), f)
           /\ running' = ~BroadcastThrows(rs, f)
           /\ last' = [Nothing EXCEPT !.op = "connection", !.conn = c,
                                      !.failed = Failed(rs, f),
                                      !.raised = BroadcastThrows(rs, f)]
    /\ UNCHANGED <<variant, userState, nextId, messages, deletionTimers,
                   timers, exited>>

\* receivedMSG.user && receivedMSG.user.id
Announces(m) == m.user.present /\ m.user.id # NoId

\* The head of ws.on("message"): currentUserId = receivedMSG.user.id and
\* cancelDeletion(currentUserId) when the frame carries a user with an id.
AnnouncedId(c, m) == IF Announces(m) THEN m.user.id ELSE currentUserId[c]

AfterAnnounce(c, m) ==
  IF Announces(m) THEN CancelDeletion(TimerState, m.user.id) ELSE TimerState

\* writes the scheduler's state back
Commit(T) ==
  /\ deletionTimers' = T.map
  /\ timers' = T.pending

\* JSON.parse(msg) throws on a malformed frame: the handler ends there.
MessageMalformed(c) ==
  /\ running
  /\ readyState[c] = "OPEN"
  /\ sent' = NoneSent
  /\ running' = FALSE
  /\ last' = [Nothing EXCEPT !.op = "malformed", !.conn = c, !.raised = TRUE]
  /\ UNCHANGED <<variant, userState, nextId, messages, deletionTimers, timers, readyState, currentUserId, exited>>

\* ws.on("message") with type "exit"
MessageExit(c, m, f) ==
  /\ running
  /\ readyState[c] = "OPEN"
  /\ m.type = "exit"
  /\ LET cur == AnnouncedId(c, m)
         T1  == AfterAnnounce(c, m)
         T2  == IF cur # NoId THEN ScheduleDeletion(T1, cur) ELSE T1
     IN  /\ cur # NoId => CanArm(T1, cur)
         /\ currentUserId' = [currentUserId EXCEPT ![c] = cur]
         /\ Commit(T2)
         /\ exited' = exited \cup {c}
         /\ sent' = Broadcast(readyState, Snapshot(userState), f)
         /\ running' = ~BroadcastThrows(readyState, f)
         /\ last' = [Nothing EXCEPT !.op = "exit", !.conn = c, !.id = cur,
                                    !.user = m.user, !.cleared = T2.cleared,
                                    !.failed = Failed(readyState, f),
                                    !.raised = BroadcastThrows(readyState, f)]
  /\ UNCHANGED <<variant, userState, nextId, messages, readyState>>

\* ws.on("message") with type "send"
MessageSend(c, m, f) ==
  /\ running
  /\ readyState[c] = "OPEN"
  /\ m.type = "send"
  /\ variant = "part_000" => Len(messages) < MaxMessages
  /\ LET cur == AnnouncedId(c, m)
         T1  == AfterAnnounce(c, m)
     IN  /\ currentUserId' = [currentUserId EXCEPT ![c] = cur]
         /\ Commit(T1)
         /\ messages' = IF variant = "part_000" THEN Append(messages, m)
                                                ELSE messages
         /\ sent' = Broadcast(readyState, Raw(m), f)
         /\ running' = ~BroadcastThrows(readyState, f)
         /\ last' = [Nothing EXCEPT !.op = "send", !.conn = c, !.id = cur,
                                    !.user = m.user, !.cleared = T1.cleared,
                                    !.failed = Failed(readyState, f),
                                    !.raised = BroadcastThrows(readyState, f)]
  /\ UNCHANGED <<variant, userState, nextId, readyState, exited>>

\* if (messages.length > 0) ws.send(history envelope), part_000 only
Replays(m) == variant = "part_000" /\ m.user.present /\ Len(messages) > 0

\* ws.on("message") with type "join"
MessageJoin(c, m, f) ==
  /\ running
  /\ readyState[c] = "OPEN"
  /\ m.type = "join"
  /\ LET cur1 == AnnouncedId(c, m)
         T1   == AfterAnnounce(c, m)
         cur2 == IF m.user.present THEN m.user.id ELSE cur1
         T2   == IF m.user.present THEN CancelDeletion(T1, cur2) ELSE T1
     IN  /\ currentUserId' = [currentUserId EXCEPT ![c] = cur2]
         /\ Commit(T2)
         /\ sent' = IF Replays(m) /\ f # c
                      THEN [NoneSent EXCEPT ![c] = <<HistoryEnvelope(messages)>>]
                      ELSE NoneSent
         /\ running' = ~(Replays(m) /\ f = c)
         /\ last' = [Nothing EXCEPT !.op = "join", !.conn = c, !.id = cur2,
                                    !.user = m.user, !.cleared = T2.cleared,
                                    !.failed = IF Replays(m) /\ f = c THEN c
                                                                      ELSE NoConn,
                                    !.raised = Replays(m) /\ f = c]
  /\ UNCHANGED <<variant, userState, nextId, messages, readyState, exited>>

\* ws.on("message") with any other type: only the head of the handler runs
MessageOther(c, m) ==
  /\ running
  /\ readyState[c] = "OPEN"
  /\ m.type \notin {"exit", "send", "join"}
  /\ LET cur == AnnouncedId(c, m)
         T1  == AfterAnnounce(c, m)
     IN  /\ currentUserId' = [currentUserId EXCEPT ![c] = cur]
         /\ Commit(T1)
         /\ sent' = NoneSent
         /\ last' = [Nothing EXCEPT !.op = "other", !.conn = c, !.id = cur,
                                    !.user = m.user, !.cleared = T1.cleared]
  /\ UNCHANGED <<variant, userState, nextId, messages, readyState, exited,
                 running>>

\* ws.on("close").  The closure that holds currentUserId is unreachable once
\* the connection has closed: the variable is reset with it.
Close(c, f) ==
  /\ running
  /\ readyState[c] = "OPEN"
  /\ LET rs  == [readyState EXCEPT ![c] = "CLOSED"]
         cur == currentUserId[c]
         T   == IF cur # NoId THEN ScheduleDeletion(TimerState, cur)
                              ELSE TimerState
     IN  /\ cur # NoId => CanArm(TimerState, cur)
         /\ readyState' = rs
         /\ currentUserId' = [currentUserId EXCEPT ![c] = NoId]
         /\ Commit(T)
         /\ exited' = exited \ {c}
         /\ sent' = IF cur # NoId THEN Broadcast(rs, Snapshot(userState), f)
                                  ELSE NoneSent
         /\ running' = ~(cur # NoId /\ BroadcastThrows(rs, f))
         /\ last' = [Nothing EXCEPT !.op = "close", !.conn = c, !.id = cur,
                                    !.cleared = T.cleared,
                                    !.failed = IF cur # NoId THEN Failed(rs, f)
                                                             ELSE NoConn,
                                    !.raised = cur # NoId /\ BroadcastThrows(rs, f)]
  /\ UNCHANGED <<variant, userState, nextId, messages>>

\* (mutant) no variant broadcasts the roster after a change of the roster
BroadcastsRoster_Never == FALSE

\* part_000 broadcasts the roster after a removal and after a registration
BroadcastsRoster == variant = "part_000"

\* the setTimeout callback armed by scheduleDeletion
Timeout(t, f) ==
  /\ running
  /\ t \in timers
  /\ LET idx    == FindIndex(userState, t.userId)
         us     == IF idx # 0 THEN Splice(userState, idx) ELSE userState
         bc     == idx # 0 /\ BroadcastsRoster
         throws == bc /\ BroadcastThrows(readyState, f)
     IN  /\ timers' = timers \ {t}
         /\ userState' = us
         /\ sent' = IF bc THEN Broadcast(readyState, Snapshot(us), f)
                          ELSE NoneSent
         /\ deletionTimers' =
              IF throws THEN deletionTimers
                        ELSE [deletionTimers EXCEPT ![t.userId] = NoTimer]
         /\ running' = ~throws
         /\ last' = [Nothing EXCEPT !.op = "timeout", !.id = t.userId,
                                    !.saved = idx # 0, !.removed = idx # 0,
                                    !.failed = IF throws THEN f ELSE NoConn,
                                    !.raised = throws]
  /\ UNCHANGED <<variant, nextId, messages, readyState,
                 currentUserId, exited>>

\* app.post("/new-user")
NewUser(body, f) ==
  LET isExist == IsExist(userState, body.name)
      newUser == [id |-> nextId, name |-> body.name]
      bc      == ~isExist /\ BroadcastsRoster
      throws  == bc /\ BroadcastThrows(readyState, f)
      raised  == body.empty \/ throws
  IN  /\ running
      /\ ~isExist => nextId <= MaxUsers
      /\ running' = ~raised
      /\ userState' = IF isExist THEN userState ELSE Append(userState, newUser)
      /\ nextId' = IF isExist THEN nextId ELSE nextId + 1
      /\ sent' = IF bc THEN Broadcast(readyState, Snapshot(userState'), f)
                       ELSE NoneSent
      /\ last' = [Nothing EXCEPT
                    !.op = "new-user",
                    !.name = body.name,
                    !.failed = IF throws THEN f ELSE NoConn,
                    !.id = IF isExist THEN NoId ELSE nextId,
                    !.saved = ~isExist,
                    !.raised = raised,
                    !.status = IF body.empty THEN 400
                               ELSE IF isExist THEN 409
                               ELSE IF throws THEN 0 ELSE 200]
      /\ UNCHANGED <<variant, messages, deletionTimers, timers,
                     readyState, currentUserId, exited>>

\* ------------------------------------------------------- specifications
\* every send succeeds
Next ==
  \/ Connection(NoConn)
  \/ \E c \in Conns : MessageMalformed(c)
  \/ \E c \in Conns : \E m \in Frames(c, "exit") : MessageExit(c, m, NoConn)
  \/ \E c \in Conns : \E m \in Frames(c, "send") : MessageSend(c, m, NoConn)
  \/ \E c \in Conns : \E m \in Frames(c, "join") : MessageJoin(c, m, NoConn)
  \/ \E c \in Conns : \E m \in Frames(c, "other") : MessageOther(c, m)
  \/ \E c \in Conns : Close(c, NoConn)
  \/ \E t \in timers : Timeout(t, NoConn)
  \/ \E body \in Bodies : NewUser(body, NoConn)

Spec == Init /\ [][Next]_vars

SpecServer == InitServer /\ [][Next]_vars

\* both variants
InitBoth == InitCommon /\ variant \in {"part_000", "server"}

SpecBoth == InitBoth /\ [][Next]_vars

\* a send to one open client may throw
\* The connection whose send may throw: none, or the open client that is
\* served first.
FirstServed(rs) == {c \in OpenClients(rs) : \A d \in OpenClients(rs) : c <= d}

MayFail == {NoConn} \cup FirstServed(readyState)

NextFail ==
  \/ \E f \in {NoConn, 1} : Connection(f)
  \/ \E c \in Conns : MessageMalformed(c)
  \/ \E c \in Conns : \E m \in Frames(c, "exit"), f \in MayFail : MessageExit(c, m, f)
  \/ \E c \in Conns : \E m \in Frames(c, "send"), f \in MayFail : MessageSend(c, m, f)
  \/ \E c \in Conns : \E m \in Frames(c, "join"), f \in {NoConn, c} : MessageJoin(c, m, f)
  \/ \E c \in Conns : \E m \in Frames(c, "other") : MessageOther(c, m)
  \/ \E c \in Conns, f \in MayFail : Close(c, f)
  \/ \E t \in timers, f \in MayFail : Timeout(t, f)
  \/ \E body \in Bodies, f \in MayFail : NewUser(body, f)

SpecFail == Init /\ [][NextFail]_vars


\* an armed timer that is not cleared fires
TimerFires == \E t \in timers : Timeout(t, NoConn)

SpecLive == Init /\ [][Next]_vars /\ WF_vars(TimerFires)

\* ================================================================ claims
RosterIds == {userState[i].id : i \in 1..Len(userState)}

MessageOps == {"join", "send", "exit", "other"}

\* the step that led to the state was an inbound event carrying user.id = i
Carried(l, i) == l.op \in MessageOps /\ l.user.present /\ l.user.id = i

\* the connection is open, has not exited, and is associated with an identity
Announced(c) ==
  readyState[c] = "OPEN" /\ c \notin exited /\ currentUserId[c] # NoId

\* C1: an identity that an open connection (not exited, not closed) is
\* associated with has no pending eviction.
C1_NoEvictionWhileAnnounced ==
  \A c \in Conns :
    Announced(c) =>
      /\ deletionTimers[currentUserId[c]] = NoTimer
      /\ \A t \in timers : t.userId # currentUserId[c]

\* C2: an inbound event carrying user.id = i clears the timer armed for i, so
\* that timer never fires; unless the event is an "exit", which arms a new
\* timer, no timer is armed for i after the event; and an identity leaves the
\* roster only in the firing of a timer that is armed and recorded for it.
C2_GraceReprieve ==
  [][ /\ \A t \in timers :
           Carried(last', t.userId) =>
             /\ last'.cleared
             /\ last'.op # "exit" =>
                  /\ deletionTimers'[t.userId] = NoTimer
                  /\ \A u \in timers' : u.userId # t.userId
      /\ \A i \in RosterIds :
           i \notin RosterIds' =>
             /\ last'.op = "timeout"
             /\ last'.id = i
             /\ \E t \in timers :
                  /\ t \notin timers'
                  /\ t.userId = i
                  /\ deletionTimers[i] = t.handle
    ]_vars

C2_Witness ==
  /\ last.op = "join"
  /\ last.cleared
  /\ last.id \in RosterIds
  /\ deletionTimers[last.id] = NoTimer
  /\ timers = {}

\* C3: after a connection associated with a roster identity i exits (without
\* carrying a user) or closes, i is eventually removed from the roster unless
\* an event carrying user.id = i arrives; and the step that removes an
\* identity sends a roster snapshot without it to every open connection.
C3_Departed(i) ==
  /\ last.op = "close" \/ (last.op = "exit" /\ ~last.user.present)
  /\ last.id = i
  /\ i \in RosterIds

C3_EvictionAfterGrace ==
  /\ [](last.op = "timeout" /\ last.removed =>
          /\ last.id \notin RosterIds
          /\ \A c \in OpenClients(readyState) :
               sent[c] = <<[kind |-> "users", body |-> userState]>>)
  /\ \A i \in Ids :
       C3_Departed(i) ~> (i \notin RosterIds \/ Carried(last, i))

\* C4: a timer that fires and removes an identity sends the roster snapshot
\* to every open connection.
C4_RemovalBroadcast ==
  last.op = "timeout" /\ last.removed =>
    \A c \in OpenClients(readyState) :
      sent[c] = <<[kind |-> "users", body |-> userState]>>

C6_Uniqueness ==
  /\ [](\A i, j \in 1..Len(userState) :
          (userState[i].name = userState[j].name
             \/ userState[i].id = userState[j].id) => i = j)
  /\ [][ (last'.op = "new-user"
            /\ \E i \in 1..Len(userState) : userState[i].name = last'.name) =>
           /\ userState' = userState
           /\ last'.status \in {400, 409}
           /\ last'.id = NoId
           /\ ~last'.saved
       ]_vars

C6_Witness ==
  /\ last.op = "new-user"
  /\ last.status = 409
  /\ Len(userState) = 2

\* C7: the history changes only by a "send" event appending its frame at the
\* end, and the envelope a "join" event gets is the whole history, in order.
C7_HistoryReplayOrder ==
  [][ /\ messages' # messages => last'.op = "send"
      /\ last'.op = "send" =>
           messages' = Append(messages, [type |-> "send", user |-> last'.user])
      /\ (last'.op = "join" /\ sent'[last'.conn] # <<>>) =>
           /\ Len(sent'[last'.conn]) = 1
           /\ sent'[last'.conn][1].kind = "messages"
           /\ sent'[last'.conn][1].body = messages
           /\ \A c \in Conns \ {last'.conn} : sent'[c] = <<>>
    ]_vars

C7_Witness ==
  /\ last.op = "join"
  /\ Len(messages) = 2
  /\ messages[1] # messages[2]
  /\ sent[last.conn] = <<[kind |-> "messages", body |-> messages]>>

\* C8: a "send" event appends its frame to the history and delivers the raw
\* frame exactly once to every open connection, the sender included, and to
\* no other; it leaves the roster and the pending evictions of every
\* identity other than the one it carries unchanged.
C8_SendFanOut ==
  [][ last'.op = "send" =>
        LET frame == [type |-> "send", user |-> last'.user]
        IN  /\ messages' = Append(messages, frame)
            /\ readyState[last'.conn] = "OPEN"
            /\ \A c \in Conns :
                 sent'[c] = IF readyState[c] = "OPEN"
                              THEN <<[kind |-> "raw", body |-> <<frame>>]>>
                              ELSE <<>>
            /\ userState' = userState
            /\ \A i \in Ids :
                 ~Carried(last', i) =>
                   /\ deletionTimers'[i] = deletionTimers[i]
                   /\ {t \in timers' : t.userId = i} = {t \in timers : t.userId = i}
    ]_vars

C8_Witness ==
  /\ last.op = "send"
  /\ OpenClients(readyState) = Conns
  /\ \A c \in Conns : Len(sent[c]) = 1
  /\ \E t \in timers : ~Carried(last, t.userId)

\* C9: when the send to one open connection throws during a fan-out, every
\* other open connection still gets the payload and no error is raised.
C9_BroadcastCompleteness ==
  (last.failed # NoConn /\ last.op # "join") =>
    /\ ~last.raised
    /\ \A c \in OpenClients(readyState) \ {last.failed} : sent[c] # <<>>

\* C10: no inbound event is processed on a connection that has processed an
\* "exit" event.
C10_ExitIsTerminal ==
  ~(last.op \in {"send", "join", "other"} /\ last.conn \in exited)

\* C11: a transport close has the same effect as an "exit" event carrying no
\* user: the pending evictions after it are those the exit leaves (a timer
\* for the associated identity, if any), and every connection that is open
\* after it gets the roster snapshot, whether or not an identity is
\* associated.
C11_CloseLikeExit ==
  [][ last'.op = "close" =>
        LET cur == currentUserId[last'.conn]
            T   == IF cur # NoId THEN ScheduleDeletion(TimerState, cur)
                                 ELSE TimerState
        IN  /\ deletionTimers' = T.map
            /\ timers' = T.pending
            /\ \A d \in OpenClients(readyState') :
                 sent'[d] = <<[kind |-> "users", body |-> userState]>>
    ]_vars

\* C12: a frame that is not JSON is dropped: nothing is raised and the relay
\* keeps running.
C12_MalformedDropped ==
  last.op = "malformed" =>
    /\ ~last.raised
    /\ running
    /\ sent = NoneSent

\* C13: a registration with an empty payload is answered 400 and does
\* nothing else: no identity is added, nothing is saved, nothing is
\* broadcast, nothing is raised.
C13_EmptyRegistration ==
  (last.op = "new-user" /\ last.status = 400) =>
    /\ last.id = NoId
    /\ ~last.saved
    /\ sent = NoneSent
    /\ ~last.raised

\* C14: the admission of a connection sends the roster snapshot to that
\* connection and to no other, and the connection starts with no identity.
C14_AdmissionScoped ==
  last.op = "connection" =>
    /\ sent[last.conn] = <<[kind |-> "users", body |-> userState]>>
    /\ \A d \in Conns \ {last.conn} : sent[d] = <<>>
    /\ currentUserId[last.conn] = NoId

\* C15: when the eviction of an identity has removed it from the roster and
\* an event carrying that identity's id is processed next, the identity is
\* in the roster again.
C15_ReannounceRegisters ==
  [][ (last.op = "timeout" /\ last.removed /\ Carried(last', last.id)) =>
        last.id \in RosterIds'
    ]_vars

\* C16: every "join" event, with or without a user, replays the whole
\* history to the joining connection and to no other (nothing when the
\* history is empty).
C16_JoinAlwaysReplays ==
  (last.op = "join" /\ Len(messages) > 0) =>
    /\ sent[last.conn] = <<[kind |-> "messages", body |-> messages]>>
    /\ \A d \in Conns \ {last.conn} : sent[d] = <<>>

C18_RosterChanges ==
  [][ userState' # userState =>
        \/ /\ last'.op = "new-user"
           /\ last'.status = 200
           /\ userState' = Append(userState, [id |-> last'.id, name |-> last'.name])
        \/ /\ last'.op = "timeout"
           /\ userState' = SelectSeq(userState, LAMBDA u : u.id # last'.id)
    ]_vars

\* C19: when every send succeeds, each step that changes the roster sends
\* the new roster to every open connection, a connection that opens gets
\* the roster, and every roster snapshot a step delivers is the roster
\* after the step; so the snapshot an open connection received last is the
\* current roster.
C19_SnapshotConsistency ==
  [][ /\ userState' # userState =>
           \A c \in Conns :
             readyState'[c] = "OPEN" =>
               sent'[c] = <<[kind |-> "users", body |-> userState']>>
      /\ \A c \in Conns :
           (readyState[c] # "OPEN" /\ readyState'[c] = "OPEN") =>
             sent'[c] = <<[kind |-> "users", body |-> userState']>>
      /\ \A c \in Conns :
           \A k \in 1..Len(sent'[c]) :
             sent'[c][k].kind = "users" => sent'[c][k].body = userState'
    ]_vars

C19_Witness ==
  /\ last.op = "timeout"
  /\ last.removed
  /\ \A c \in Conns :
       /\ readyState[c] = "OPEN"
       /\ sent[c] = <<[kind |-> "users", body |-> userState]>>

\* C20: a timer is armed only by an "exit" event or a close of a connection,
\* and only for the identity that connection is associated with at that
\* moment; no other step arms a timer or records one, and an identity
\* leaves the roster only when a timer armed for it fires.
C20_EvictionOrigin ==
  [][ /\ last'.op \notin {"exit", "close"} =>
           /\ timers' \subseteq timers
           /\ \A i \in Ids :
                deletionTimers'[i] \in {NoTimer, deletionTimers[i]}
      /\ last'.op = "close" => last'.id = currentUserId[last'.conn]
      /\ last'.op = "exit" => last'.id = currentUserId'[last'.conn]
      /\ last'.op \in {"exit", "close"} =>
           /\ \A t \in timers' : t.userId # last'.id => t \in timers
           /\ \A i \in Ids \ {last'.id} : deletionTimers'[i] = deletionTimers[i]
      /\ \A k \in 1..Len(userState) :
           (\A j \in 1..Len(userState') : userState'[j].id # userState[k].id) =>
             \E t \in timers : t.userId = userState[k].id
    ]_vars

C20_Witness ==
  /\ last.op = "close"
  /\ last.id = 2
  /\ \A t \in timers : t.userId = 2
  /\ timers # {}
  /\ deletionTimers[1] = NoTimer
  /\ Len(userState) = 2

====
